---- MODULE Spec2Model ----
(***************************************************************************)
(* Transaction execution core of the wallet ledger                         *)
(* (backend/src/transactions.rs): the six transactions Issue, Transfer,    *)
(* CreateWallet, MailPreparation, MailAcceptance and Cancellation, their   *)
(* verify predicates and their execute functions, applied one at a time    *)
(* to the wallets table and the table of recorded transactions.            *)
(*                                                                         *)
(* The schema (CurrencySchema: wallet, create_wallet,                      *)
(* increase_wallet_balance, decrease_wallet_balance, transactions) is not  *)
(* part of transactions.rs; it is modelled from section 4.1 of the         *)
(* specification.                                                          *)
(***************************************************************************)
EXTENDS Integers, FiniteSets, Sequences, TLC

\* ------------------------------------------------------------------ bounds
\* Largest amount carried by a submitted transaction.
MaxAmount == 1
\* Largest balance a wallet holds in an initial ledger.
InitBalance == 2
\* Number of transactions submitted after the initial ledger.
MaxOps == 2

\* ----------------------------------------------------------- value domains
Keys == {"alice", "bob", "carol"}
\* Wallets that exist in the initial ledger.
InitKeys == {"alice", "bob"}
Names == {"n"}
Amounts == 0..MaxAmount
Metas == {"m"}
\* Seeds of the transactions submitted after the initial ledger (the Issue
\* transactions that funded the initial ledger carry seed 0).
Seeds == {1}
\* type_transaction of a Cancellation: 1 names Transfer; 2 stands for every
\* other value.
TypeTags == {1, 2}

\* ------------------------------------------------------------- error codes
WalletAlreadyExists == 0
SenderNotFound == 1
ReceiverNotFound == 2
InsufficientCurrencyAmount == 3

\* Outcome of one submission: Ok(()), Err(code), a panic of execute (an
\* unwrap of None or of a decoding error, or the underflow failure of a
\* debit), or the transaction discarded because verify returned false.
Ok == [kind |-> "Ok", code |-> 0 - 1]
Err(code) == [kind |-> "Err", code |-> code]
Panic == [kind |-> "Panic", code |-> 0 - 1]
Rejected == [kind |-> "Rejected", code |-> 0 - 1]

\* ------------------------------------------------------------ transactions
TransferTx(from, to, amount, seed) ==
    [type |-> "Transfer", from |-> from, to |-> to, amount |-> amount, seed |-> seed]

IssueTx(pub_key, issuer_key, amount, seed) ==
    [type |-> "Issue", pub_key |-> pub_key, issuer_key |-> issuer_key,
     amount |-> amount, seed |-> seed]

CreateWalletTx(pub_key, name) ==
    [type |-> "CreateWallet", pub_key |-> pub_key, name |-> name]

MailPreparationTx(meta, pub_key, amount, seed) ==
    [type |-> "MailPreparation", meta |-> meta, pub_key |-> pub_key,
     amount |-> amount, seed |-> seed]

MailAcceptanceTx(sender, pub_key, amount, accept, seed) ==
    [type |-> "MailAcceptance", sender |-> sender, pub_key |-> pub_key,
     amount |-> amount, accept |-> accept, seed |-> seed]

CancellationTx(pub_key, sender, tx_hash, type_transaction) ==
    [type |-> "Cancellation", pub_key |-> pub_key, sender |-> sender,
     tx_hash |-> tx_hash, type_transaction |-> type_transaction]

\* The content hash of a transaction: a function of all its fields, and
\* injective (no collisions).
Hash(tx) == [digest |-> tx]

VARIABLES
    wallets,       \* pub_key -> wallet, for the wallets that exist
    transactions,  \* hash -> recorded transaction
    height,        \* number of transactions submitted since the initial ledger
    tx,            \* the transaction submitted last
    result,        \* its outcome
    pre            \* the wallets table before it was submitted

vars == <<wallets, transactions, height, tx, result, pre>>

\* ------------------------------------------------------------------ schema
\* CurrencySchema::wallet: Some(wallet) iff the key has a wallet.
HasWallet(w, key) == key \in DOMAIN w

\* CurrencySchema::create_wallet: inserts a record with zero balance.
create_wallet(w, key, name, hash, freezed_balance) ==
    w @@ (key :> [pub_key |-> key, name |-> name, balance |-> 0,
                  freezed_balance |-> freezed_balance, history_hash |-> hash])

\* CurrencySchema::increase_wallet_balance: writes the wallet it was handed,
\* with its balance raised by amount, under the wallet's key.
increase_wallet_balance(w, wallet, amount, hash, freezed_balance) ==
    [w EXCEPT ![wallet.pub_key] =
        [wallet EXCEPT !.balance = wallet.balance + amount,
                       !.history_hash = hash]]

\* CurrencySchema::decrease_wallet_balance fails (integer underflow) when the
\* amount exceeds the balance of the wallet it was handed.
DecreaseUnderflows(wallet, amount) == amount > wallet.balance

\* CurrencySchema::decrease_wallet_balance: writes the wallet it was handed,
\* with its balance lowered by amount and the freeze tag added to the frozen
\* balance, under the wallet's key.
decrease_wallet_balance(w, wallet, amount, hash, freezed_balance) ==
    [w EXCEPT ![wallet.pub_key] =
        [wallet EXCEPT !.balance = wallet.balance - amount,
                       !.freezed_balance = wallet.freezed_balance + freezed_balance,
                       !.history_hash = hash]]

\* An execution's outcome and the wallets table it leaves.
Outcome(res, w) == [result |-> res, wallets |-> w]

\* ------------------------------------------------------------------ verify
\* sig: whether the signature verifies under the key the transaction names.
IssueVerify(t, sig) == sig

\* Transfer::verify without the from != to test.
TransferVerify_SignatureOnly(t, sig) == sig

TransferVerify(t, sig) == (t.from # t.to) /\ sig

CreateWalletVerify(t, sig) == sig

MailPreparationVerify(t, sig) == sig

MailAcceptanceVerify(t, sig) == sig

CancellationVerify(t, sig) == sig

\* ----------------------------------------------------------------- execute
\* Issue::execute that also debits the issuer's wallet when it can.
IssueExecute_DebitIssuer(t, w) ==
    IF HasWallet(w, t.pub_key)
    THEN LET w1 == IF HasWallet(w, t.issuer_key) /\ w[t.issuer_key].balance >= t.amount
                   THEN decrease_wallet_balance(w, w[t.issuer_key], t.amount, Hash(t), 0)
                   ELSE w
         IN  Outcome(Ok, increase_wallet_balance(w1, w1[t.pub_key], t.amount, Hash(t), 0))
    ELSE Outcome(Err(ReceiverNotFound), w)

IssueExecute(t, w) ==
    IF HasWallet(w, t.pub_key)
    THEN Outcome(Ok, increase_wallet_balance(w, w[t.pub_key], t.amount, Hash(t), 0))
    ELSE Outcome(Err(ReceiverNotFound), w)

\* Transfer::execute with the balance test off by one (<= for <).
TransferExecute_OffByOne(t, w) ==
    IF ~HasWallet(w, t.from) THEN Outcome(Err(SenderNotFound), w)
    ELSE IF ~HasWallet(w, t.to) THEN Outcome(Err(ReceiverNotFound), w)
    ELSE LET sender == w[t.from]
             receiver == w[t.to]
         IN  IF sender.balance <= t.amount
             THEN Outcome(Err(InsufficientCurrencyAmount), w)
             ELSE LET w1 == decrease_wallet_balance(w, sender, t.amount, Hash(t), 0)
                  IN  Outcome(Ok, increase_wallet_balance(w1, receiver, t.amount, Hash(t), 0))

TransferExecute(t, w) ==
    IF ~HasWallet(w, t.from) THEN Outcome(Err(SenderNotFound), w)
    ELSE IF ~HasWallet(w, t.to) THEN Outcome(Err(ReceiverNotFound), w)
    ELSE LET sender == w[t.from]
             receiver == w[t.to]
         IN  IF sender.balance < t.amount
             THEN Outcome(Err(InsufficientCurrencyAmount), w)
             ELSE LET w1 == decrease_wallet_balance(w, sender, t.amount, Hash(t), 0)
                  IN  Outcome(Ok, increase_wallet_balance(w1, receiver, t.amount, Hash(t), 0))

\* CreateWallet::execute without the test for an existing wallet.
CreateWalletExecute_Overwrite(t, w) ==
    Outcome(Ok, create_wallet([k \in DOMAIN w \ {t.pub_key} |-> w[k]],
                              t.pub_key, t.name, Hash(t), 0))

CreateWalletExecute(t, w) ==
    IF ~HasWallet(w, t.pub_key)
    THEN Outcome(Ok, create_wallet(w, t.pub_key, t.name, Hash(t), 0))
    ELSE Outcome(Err(WalletAlreadyExists), w)

\* MailPreparation::execute with the balance test off by one (<= for <).
MailPreparationExecute_OffByOne(t, w) ==
    IF ~HasWallet(w, t.pub_key) THEN Outcome(Err(SenderNotFound), w)
    ELSE LET sender == w[t.pub_key]
         IN  IF sender.balance <= t.amount
             THEN Outcome(Err(InsufficientCurrencyAmount), w)
             ELSE Outcome(Ok, decrease_wallet_balance(w, sender, t.amount, Hash(t), t.amount))

\* MailPreparation::execute that debits with a zero freeze tag.
MailPreparationExecute_NoFreezeTag(t, w) ==
    IF ~HasWallet(w, t.pub_key) THEN Outcome(Err(SenderNotFound), w)
    ELSE LET sender == w[t.pub_key]
         IN  IF sender.balance < t.amount
             THEN Outcome(Err(InsufficientCurrencyAmount), w)
             ELSE Outcome(Ok, decrease_wallet_balance(w, sender, t.amount, Hash(t), 0))

MailPreparationExecute(t, w) ==
    IF ~HasWallet(w, t.pub_key) THEN Outcome(Err(SenderNotFound), w)
    ELSE LET sender == w[t.pub_key]
         IN  IF sender.balance < t.amount
             THEN Outcome(Err(InsufficientCurrencyAmount), w)
             ELSE Outcome(Ok, decrease_wallet_balance(w, sender, t.amount, Hash(t), t.amount))

\* MailAcceptance::execute that debits the transaction's amount instead of
\* zero.
MailAcceptanceExecute_DebitAmount(t, w) ==
    IF ~HasWallet(w, t.sender) THEN Outcome(Err(SenderNotFound), w)
    ELSE IF w[t.sender].balance < t.amount
         THEN Outcome(Err(InsufficientCurrencyAmount), w)
         ELSE Outcome(Ok, decrease_wallet_balance(w, w[t.sender], t.amount, Hash(t), 0))

\* MailAcceptance::execute that, when the mail is not accepted, returns the
\* amount from the frozen balance to the balance.
MailAcceptanceExecute_ReturnOnReject(t, w) ==
    IF ~HasWallet(w, t.sender) THEN Outcome(Err(SenderNotFound), w)
    ELSE IF ~t.accept /\ w[t.sender].freezed_balance >= t.amount
         THEN Outcome(Ok, [w EXCEPT ![t.sender] =
                  [w[t.sender] EXCEPT !.balance = w[t.sender].balance + t.amount,
                                      !.freezed_balance = w[t.sender].freezed_balance - t.amount,
                                      !.history_hash = Hash(t)]])
         ELSE Outcome(Ok, decrease_wallet_balance(w, w[t.sender], 0, Hash(t), 0))

MailAcceptanceExecute(t, w) ==
    IF ~HasWallet(w, t.sender) THEN Outcome(Err(SenderNotFound), w)
    ELSE Outcome(Ok, decrease_wallet_balance(w, w[t.sender], 0, Hash(t), 0))

\* Message::from_raw::<Transfer>: an error unless the recorded message is a
\* Transfer.
DecodesAsTransfer(raw) == raw.type = "Transfer"

\* type_transaction of a Cancellation that names a Transfer.
TransferTag == 1

\* Cancellation::execute that credits the sender and never debits the
\* receiver.
CancellationExecute_CreditOnly(t, w, txs) ==
    IF t.tx_hash \notin DOMAIN txs THEN Outcome(Panic, w)
    ELSE LET raw_tx == txs[t.tx_hash]
         IN  IF ~DecodesAsTransfer(raw_tx) THEN Outcome(Panic, w)
             ELSE IF t.type_transaction # TransferTag THEN Outcome(Ok, w)
             ELSE IF ~HasWallet(w, raw_tx.from) THEN Outcome(Err(SenderNotFound), w)
             ELSE IF ~HasWallet(w, raw_tx.to) THEN Outcome(Err(ReceiverNotFound), w)
             ELSE Outcome(Ok, increase_wallet_balance(w, w[raw_tx.from], raw_tx.amount,
                                                      t.tx_hash, 0))

\* Cancellation::execute that credits the sender before it debits the
\* receiver.
CancellationExecute_CreditFirst(t, w, txs) ==
    IF t.tx_hash \notin DOMAIN txs THEN Outcome(Panic, w)
    ELSE LET raw_tx == txs[t.tx_hash]
         IN  IF ~DecodesAsTransfer(raw_tx) THEN Outcome(Panic, w)
             ELSE IF t.type_transaction # TransferTag THEN Outcome(Ok, w)
             ELSE IF ~HasWallet(w, raw_tx.from) THEN Outcome(Err(SenderNotFound), w)
             ELSE IF ~HasWallet(w, raw_tx.to) THEN Outcome(Err(ReceiverNotFound), w)
             ELSE LET wallet_from == w[raw_tx.from]
                      wallet_to == w[raw_tx.to]
                      w1 == increase_wallet_balance(w, wallet_from, raw_tx.amount,
                                                    t.tx_hash, 0)
                  IN  IF DecreaseUnderflows(wallet_to, raw_tx.amount)
                      THEN Outcome(Panic, w1)
                      ELSE Outcome(Ok, decrease_wallet_balance(w1, wallet_to,
                                               raw_tx.amount, t.tx_hash, 0))

\* Cancellation::execute that repeats the Transfer (debits its sender and
\* credits its receiver) instead of inverting it.
CancellationExecute_Repeat(t, w, txs) ==
    IF t.tx_hash \notin DOMAIN txs THEN Outcome(Panic, w)
    ELSE LET raw_tx == txs[t.tx_hash]
         IN  IF ~DecodesAsTransfer(raw_tx) THEN Outcome(Panic, w)
             ELSE IF t.type_transaction # TransferTag THEN Outcome(Ok, w)
             ELSE IF ~HasWallet(w, raw_tx.from) THEN Outcome(Err(SenderNotFound), w)
             ELSE IF ~HasWallet(w, raw_tx.to) THEN Outcome(Err(ReceiverNotFound), w)
             ELSE LET wallet_from == w[raw_tx.from]
                      wallet_to == w[raw_tx.to]
                  IN  IF DecreaseUnderflows(wallet_from, raw_tx.amount)
                      THEN Outcome(Panic, w)
                      ELSE LET w1 == decrease_wallet_balance(w, wallet_from, raw_tx.amount,
                                                             t.tx_hash, 0)
                           IN  Outcome(Ok, increase_wallet_balance(w1, wallet_to,
                                               raw_tx.amount, t.tx_hash, 0))

CancellationExecute(t, w, txs) ==
    IF t.tx_hash \notin DOMAIN txs THEN Outcome(Panic, w)
    ELSE LET raw_tx == txs[t.tx_hash]
         IN  IF ~DecodesAsTransfer(raw_tx) THEN Outcome(Panic, w)
             ELSE IF t.type_transaction # TransferTag THEN Outcome(Ok, w)
             ELSE IF ~HasWallet(w, raw_tx.from) THEN Outcome(Err(SenderNotFound), w)
             ELSE IF ~HasWallet(w, raw_tx.to) THEN Outcome(Err(ReceiverNotFound), w)
             ELSE LET wallet_from == w[raw_tx.from]
                      wallet_to == w[raw_tx.to]
                  IN  IF DecreaseUnderflows(wallet_to, raw_tx.amount)
                      THEN Outcome(Panic, w)
                      ELSE LET w1 == decrease_wallet_balance(w, wallet_to, raw_tx.amount,
                                                             t.tx_hash, 0)
                           IN  Outcome(Ok, increase_wallet_balance(w1, wallet_from,
                                               raw_tx.amount, t.tx_hash, 0))

\* Transaction::execute, by the type of the transaction.
Execute(t, w, txs) ==
    CASE t.type = "Issue" -> IssueExecute(t, w)
      [] t.type = "Transfer" -> TransferExecute(t, w)
      [] t.type = "CreateWallet" -> CreateWalletExecute(t, w)
      [] t.type = "MailPreparation" -> MailPreparationExecute(t, w)
      [] t.type = "MailAcceptance" -> MailAcceptanceExecute(t, w)
      [] t.type = "Cancellation" -> CancellationExecute(t, w, txs)

\* ------------------------------------------------------------ initial ledger
\* The empty ledger: no wallet, no recorded transaction.
EmptyWallets == [k \in {} |-> 0]
EmptyTransactions == [h \in {} |-> 0]

\* The transactions that build an initial ledger (all with seed 0): a
\* wallet for every key of InitKeys, an Issue to each, and, when
\* moved \in Amounts, a Transfer of that amount from alice to bob.
GenesisBlock(balances, moved) ==
    <<CreateWalletTx("alice", "g"), CreateWalletTx("bob", "g"),
      IssueTx("alice", "alice", balances["alice"], 0),
      IssueTx("bob", "alice", balances["bob"], 0)>>
    \o (IF moved \in Amounts THEN <<TransferTx("alice", "bob", moved, 0)>> ELSE <<>>)

\* The ledger after the first n transactions of a block were executed in
\* order from the empty ledger, each recorded under its hash.
RECURSIVE LedgerAfter(_, _)
LedgerAfter(block, n) ==
    IF n = 0
    THEN [wallets |-> EmptyWallets, transactions |-> EmptyTransactions,
          result |-> Ok, pre |-> EmptyWallets]
    ELSE LET before == LedgerAfter(block, n - 1)
             t == block[n]
             out == Execute(t, before.wallets, before.transactions)
         IN  [wallets |-> out.wallets,
              transactions |-> before.transactions @@ (Hash(t) :> t),
              result |-> out.result, pre |-> before.wallets]

Init ==
    \E balances \in [InitKeys -> 0..InitBalance], moved \in Amounts \cup {0 - 1} :
        LET block == GenesisBlock(balances, moved)
            ledger == LedgerAfter(block, Len(block))
        IN  /\ wallets = ledger.wallets
            /\ transactions = ledger.transactions
            /\ height = 0
            /\ tx = block[Len(block)]
            /\ result = ledger.result
            /\ pre = ledger.pre

\* ------------------------------------------------------------------ actions
\* One submission: the transaction is discarded if verify fails; otherwise
\* it is executed against the wallets table and recorded under its hash.
\* A transaction is submitted once.
Submit(t, verified, out) ==
    /\ height < MaxOps
    /\ Hash(t) \notin DOMAIN transactions
    /\ tx' = t
    /\ pre' = wallets
    /\ height' = height + 1
    /\ IF verified
       THEN /\ result' = out.result
            /\ wallets' = out.wallets
            /\ transactions' = transactions @@ (Hash(t) :> t)
       ELSE /\ result' = Rejected
            /\ UNCHANGED <<wallets, transactions>>

Issue ==
    \E pub_key \in Keys, issuer_key \in {"alice"}, amount \in Amounts, seed \in Seeds,
       sig \in BOOLEAN :
        LET t == IssueTx(pub_key, issuer_key, amount, seed)
        IN  Submit(t, IssueVerify(t, sig), IssueExecute(t, wallets))

Transfer ==
    \E from \in Keys, to \in Keys, amount \in Amounts, seed \in Seeds, sig \in BOOLEAN :
        LET t == TransferTx(from, to, amount, seed)
        IN  Submit(t, TransferVerify(t, sig), TransferExecute(t, wallets))

CreateWallet ==
    \E pub_key \in Keys, name \in Names, sig \in BOOLEAN :
        LET t == CreateWalletTx(pub_key, name)
        IN  Submit(t, CreateWalletVerify(t, sig), CreateWalletExecute(t, wallets))

MailPreparation ==
    \E meta \in Metas, pub_key \in Keys, amount \in Amounts, seed \in Seeds,
       sig \in BOOLEAN :
        LET t == MailPreparationTx(meta, pub_key, amount, seed)
        IN  Submit(t, MailPreparationVerify(t, sig), MailPreparationExecute(t, wallets))

MailAcceptance ==
    \E sender \in Keys, pub_key \in {"bob"}, amount \in Amounts, accept \in BOOLEAN,
       seed \in Seeds, sig \in BOOLEAN :
        LET t == MailAcceptanceTx(sender, pub_key, amount, accept, seed)
        IN  Submit(t, MailAcceptanceVerify(t, sig), MailAcceptanceExecute(t, wallets))

\* A hash under which no transaction is recorded.
UnknownHash == Hash(TransferTx("alice", "bob", 1, 0))

Cancellation ==
    \E pub_key \in {"alice"}, sender \in {"alice", "bob"},
       tx_hash \in DOMAIN transactions \cup {UnknownHash},
       type_transaction \in TypeTags, sig \in BOOLEAN :
        LET t == CancellationTx(pub_key, sender, tx_hash, type_transaction)
        IN  Submit(t, CancellationVerify(t, sig),
                   CancellationExecute(t, wallets, transactions))

Next ==
    \/ Issue
    \/ Transfer
    \/ CreateWallet
    \/ MailPreparation
    \/ MailAcceptance
    \/ Cancellation

Spec == Init /\ [][Next]_vars

\* ------------------------------------------------- what the claims speak of
\* The submitted transaction passed verify and was executed.
Executed == result.kind \in {"Ok", "Err", "Panic"}

\* Its execution failed: a typed error or a panic.
Failed == result.kind \in {"Err", "Panic"}

\* The recorded transactions as they were when tx was submitted.
PreTransactions ==
    [h \in DOMAIN transactions \ {Hash(tx)} |-> transactions[h]]

RECURSIVE SumOver(_, _)
SumOver(w, keys) ==
    IF keys = {} THEN 0
    ELSE LET k == CHOOSE j \in keys : TRUE
         IN  w[k].balance + w[k].freezed_balance + SumOver(w, keys \ {k})

\* Sum over all wallets of balance + freezed_balance.
Total(w) == SumOver(w, DOMAIN w)

\* Every wallet other than those of keys is as it was before tx.
OthersUnchanged(keys) ==
    /\ DOMAIN wallets \ keys = DOMAIN pre \ keys
    /\ \A k \in DOMAIN pre \ keys : wallets[k] = pre[k]

\* t is a Cancellation with the Transfer tag of a recorded Transfer whose
\* two wallets exist in w.
ReversesTransfer(t, w, txs) ==
    /\ t.type = "Cancellation"
    /\ t.type_transaction = 1
    /\ t.tx_hash \in DOMAIN txs
    /\ txs[t.tx_hash].type = "Transfer"
    /\ txs[t.tx_hash].from \in DOMAIN w
    /\ txs[t.tx_hash].to \in DOMAIN w

\* Executing t on w would take the balance of the wallet it debits below
\* zero.
Overdraws(t, w, txs) ==
    \/ /\ t.type = "Transfer"
       /\ t.from \in DOMAIN w /\ t.to \in DOMAIN w
       /\ t.amount > w[t.from].balance
    \/ /\ t.type = "MailPreparation"
       /\ t.pub_key \in DOMAIN w
       /\ t.amount > w[t.pub_key].balance
    \/ /\ ReversesTransfer(t, w, txs)
       /\ txs[t.tx_hash].amount > w[txs[t.tx_hash].to].balance

\* --------------------------------------------------------------------- C1
\* C1: no wallet's balance or freezed_balance is ever below zero, and every
\* executed transaction that would take a balance below zero fails with
\* InsufficientCurrencyAmount and leaves the wallets unchanged.
C1_NonNegativeOrInsufficient ==
    /\ \A k \in DOMAIN wallets :
          wallets[k].balance >= 0 /\ wallets[k].freezed_balance >= 0
    /\ (Executed /\ Overdraws(tx, pre, PreTransactions))
          => (result = Err(InsufficientCurrencyAmount) /\ wallets = pre)

\* --------------------------------------------------------------------- C2
\* C2: a Transfer, MailPreparation or MailAcceptance, whether it succeeds,
\* fails or is discarded, leaves the sum over all wallets of
\* balance + freezed_balance as it was; so does any sequence of them.
C2_Conservation ==
    tx.type \in {"Transfer", "MailPreparation", "MailAcceptance"}
        => Total(wallets) = Total(pre)

\* A MailPreparation has moved a positive amount into the frozen balance.
C2_Witness ==
    /\ tx.type = "MailPreparation"
    /\ result = Ok
    /\ tx.amount > 0
    /\ wallets[tx.pub_key].freezed_balance > pre[tx.pub_key].freezed_balance

C4_ReversalRoundTrip ==
    [][ ( /\ tx.type = "Transfer" /\ result = Ok
          /\ tx'.type = "Cancellation"
          /\ tx'.tx_hash = Hash(tx)
          /\ tx'.type_transaction = 1
          /\ result'.kind # "Rejected"
          /\ wallets[tx.to].balance >= tx.amount )
        => ( /\ result' = Ok
             /\ wallets'[tx.from].balance = pre[tx.from].balance
             /\ wallets'[tx.to].balance = pre[tx.to].balance ) ]_vars

\* A Cancellation has succeeded on a Transfer of a positive amount that was
\* the last transaction to touch both of its wallets.
C4_Witness ==
    /\ result = Ok
    /\ ReversesTransfer(tx, pre, PreTransactions)
    /\ PreTransactions[tx.tx_hash].amount > 0
    /\ pre[PreTransactions[tx.tx_hash].from].history_hash = tx.tx_hash
    /\ pre[PreTransactions[tx.tx_hash].to].history_hash = tx.tx_hash
    /\ wallets # pre

\* --------------------------------------------------------------------- C5
\* C5: a Cancellation of a recorded Transfer whose receiver holds less than
\* the Transfer's amount fails with InsufficientCurrencyAmount and leaves
\* every wallet unchanged.
C5_ReversalInsufficientFunds ==
    ( /\ Executed
      /\ ReversesTransfer(tx, pre, PreTransactions)
      /\ pre[PreTransactions[tx.tx_hash].to].balance < PreTransactions[tx.tx_hash].amount )
    => (result = Err(InsufficientCurrencyAmount) /\ wallets = pre)

\* --------------------------------------------------------------------- C6
\* C6: a Cancellation whose tx_hash names no recorded transaction ends, for
\* every type_transaction, in a typed error (never Ok, never a panic) and
\* leaves the ledger unchanged.
C6_UnknownReferenceTypedError ==
    ( /\ Executed
      /\ tx.type = "Cancellation"
      /\ tx.tx_hash \notin DOMAIN PreTransactions )
    => (result.kind = "Err" /\ wallets = pre)

C8_SelfTransferRejected ==
    /\ (tx.type = "Transfer" /\ tx.from = tx.to)
          => (result = Rejected /\ wallets = pre)
    /\ \A h \in DOMAIN transactions :
          transactions[h].type = "Transfer" => transactions[h].from # transactions[h].to
    /\ result = Rejected => (wallets = pre /\ Hash(tx) \notin DOMAIN transactions)

\* A Transfer to oneself that the balance would have covered was discarded.
C8_Witness ==
    /\ tx.type = "Transfer"
    /\ tx.from = tx.to
    /\ result = Rejected
    /\ tx.from \in DOMAIN wallets
    /\ tx.amount > 0
    /\ wallets[tx.from].balance >= tx.amount

\* --------------------------------------------------------------------- C9
\* C9: an executed CreateWallet for a key that has a wallet fails with
\* WalletAlreadyExists and leaves every wallet (balances, name,
\* history_hash) unchanged; otherwise it succeeds, the new wallet has
\* balance 0 and freezed_balance 0, and no other wallet changes.
C9_CreateWallet ==
    (Executed /\ tx.type = "CreateWallet")
    => IF tx.pub_key \in DOMAIN pre
         THEN result = Err(WalletAlreadyExists) /\ wallets = pre
       ELSE /\ result = Ok
            /\ tx.pub_key \in DOMAIN wallets
            /\ wallets[tx.pub_key].balance = 0
            /\ wallets[tx.pub_key].freezed_balance = 0
            /\ OthersUnchanged({tx.pub_key})

\* A CreateWallet for a key whose wallet holds a positive balance has
\* failed.
C9_Witness ==
    /\ tx.type = "CreateWallet"
    /\ result = Err(WalletAlreadyExists)
    /\ pre[tx.pub_key].balance + pre[tx.pub_key].freezed_balance > 0
    /\ wallets[tx.pub_key].name # tx.name

\* -------------------------------------------------------------------- C10
\* C10: an executed Issue fails with ReceiverNotFound and changes nothing
\* if pub_key has no wallet; otherwise it succeeds, the receiver's balance
\* grows by exactly the amount, its freezed_balance is unchanged, no other
\* wallet (the issuer's included) changes, and the total of
\* balance + freezed_balance grows by exactly the amount.
C10_Issue ==
    (Executed /\ tx.type = "Issue")
    => IF tx.pub_key \notin DOMAIN pre
         THEN result = Err(ReceiverNotFound) /\ wallets = pre
       ELSE /\ result = Ok
            /\ wallets[tx.pub_key].balance = pre[tx.pub_key].balance + tx.amount
            /\ wallets[tx.pub_key].freezed_balance = pre[tx.pub_key].freezed_balance
            /\ OthersUnchanged({tx.pub_key})
            /\ Total(wallets) = Total(pre) + tx.amount

\* An Issue of a positive amount to a wallet other than the issuer's has
\* succeeded while the issuer's wallet could have paid for it.
C10_Witness ==
    /\ tx.type = "Issue"
    /\ result = Ok
    /\ tx.amount > 0
    /\ tx.pub_key # tx.issuer_key
    /\ tx.issuer_key \in DOMAIN pre
    /\ pre[tx.issuer_key].balance >= tx.amount
    /\ height > 0

\* -------------------------------------------------------------------- C11
\* C11: an executed MailPreparation fails with SenderNotFound if pub_key has
\* no wallet, else with InsufficientCurrencyAmount if the balance is below
\* the amount, both leaving the wallets unchanged; otherwise it succeeds,
\* the balance falls by exactly the amount, the freezed_balance grows by
\* exactly the amount, and no other wallet changes.
C11_MailPreparation ==
    (Executed /\ tx.type = "MailPreparation")
    => IF tx.pub_key \notin DOMAIN pre
         THEN result = Err(SenderNotFound) /\ wallets = pre
       ELSE IF pre[tx.pub_key].balance < tx.amount
         THEN result = Err(InsufficientCurrencyAmount) /\ wallets = pre
       ELSE /\ result = Ok
            /\ wallets[tx.pub_key].balance = pre[tx.pub_key].balance - tx.amount
            /\ wallets[tx.pub_key].freezed_balance
                  = pre[tx.pub_key].freezed_balance + tx.amount
            /\ wallets[tx.pub_key].balance + wallets[tx.pub_key].freezed_balance
                  = pre[tx.pub_key].balance + pre[tx.pub_key].freezed_balance
            /\ OthersUnchanged({tx.pub_key})

\* A MailPreparation has frozen the whole positive balance of a wallet.
C11_Witness ==
    /\ tx.type = "MailPreparation"
    /\ result = Ok
    /\ tx.amount > 0
    /\ pre[tx.pub_key].balance = tx.amount
    /\ wallets[tx.pub_key].freezed_balance = pre[tx.pub_key].freezed_balance + tx.amount

\* -------------------------------------------------------------------- C12
\* C12: an executed MailAcceptance fails with SenderNotFound if the wallet
\* it names (sender) is missing; otherwise it succeeds whatever its accept
\* flag, amount and seed, and changes nothing but the history_hash of that
\* wallet, which becomes the hash of the MailAcceptance.
C12_MailAcceptance ==
    (Executed /\ tx.type = "MailAcceptance")
    => IF tx.sender \notin DOMAIN pre
         THEN result = Err(SenderNotFound) /\ wallets = pre
       ELSE /\ result = Ok
            /\ wallets = [pre EXCEPT ![tx.sender] =
                              [pre[tx.sender] EXCEPT !.history_hash = Hash(tx)]]

\* A MailAcceptance that rejects a positive amount has succeeded on a wallet
\* with a positive frozen balance.
C12_Witness ==
    /\ tx.type = "MailAcceptance"
    /\ result = Ok
    /\ ~tx.accept
    /\ tx.amount > 0
    /\ pre[tx.sender].freezed_balance > 0
    /\ wallets[tx.sender].history_hash = Hash(tx)

\* -------------------------------------------------------------------- C13
\* C13: an executed Cancellation that names a recorded transaction of any
\* type and whose type_transaction is not the Transfer tag returns Ok and
\* leaves the balances of every wallet unchanged.
C13_OtherTagIsNoOp ==
    ( /\ Executed
      /\ tx.type = "Cancellation"
      /\ tx.tx_hash \in DOMAIN PreTransactions
      /\ tx.type_transaction # 1 )
    => (result = Ok /\ wallets = pre)

\* -------------------------------------------------------------------- C15
\* C15: every successful transaction other than an Issue leaves the sum
\* over all wallets of balance + freezed_balance unchanged, and a
\* successful Cancellation of a Transfer of amount A lowers the balance of
\* the Transfer's receiver by exactly A, raises that of its sender by
\* exactly A, and changes no frozen balance and no other wallet.
C15_ValueOnlyThroughIssue ==
    /\ (result = Ok /\ tx.type # "Issue") => Total(wallets) = Total(pre)
    /\ (result = Ok /\ ReversesTransfer(tx, pre, PreTransactions))
          => LET t == PreTransactions[tx.tx_hash]
             IN  /\ wallets[t.to].balance = pre[t.to].balance - t.amount
                 /\ wallets[t.from].balance = pre[t.from].balance + t.amount
                 /\ wallets[t.to].freezed_balance = pre[t.to].freezed_balance
                 /\ wallets[t.from].freezed_balance = pre[t.from].freezed_balance
                 /\ OthersUnchanged({t.from, t.to})

\* A Cancellation of a Transfer of a positive amount has succeeded while a
\* third wallet exists.
C15_Witness ==
    /\ result = Ok
    /\ ReversesTransfer(tx, pre, PreTransactions)
    /\ PreTransactions[tx.tx_hash].amount > 0
    /\ DOMAIN pre \ {PreTransactions[tx.tx_hash].from, PreTransactions[tx.tx_hash].to} # {}

\* -------------------------------------------------------------------- C16
\* C16: every execution failure is a typed error with a code:
\* WalletAlreadyExists = 0 from CreateWallet, SenderNotFound = 1,
\* ReceiverNotFound = 2, InsufficientCurrencyAmount = 3, and for a
\* Cancellation of an unknown hash an error whose code is none of 0..3.
C16_StableErrorCodes ==
    /\ WalletAlreadyExists = 0 /\ SenderNotFound = 1
    /\ ReceiverNotFound = 2 /\ InsufficientCurrencyAmount = 3
    /\ Failed => result.kind = "Err"
    /\ (Failed /\ tx.type = "CreateWallet") => result.code = 0
    /\ (Failed /\ tx.type = "Cancellation" /\ tx.tx_hash \notin DOMAIN PreTransactions)
          => result.code \notin 0..3
    /\ (Failed /\ Overdraws(tx, pre, PreTransactions)) => result.code = 3

\* -------------------------------------------------------------------- C17
\* The wallets a successful transaction debits or credits.
Touched(t, w, txs) ==
    CASE t.type = "Transfer" -> {t.from, t.to}
      [] t.type = "Issue" -> {t.pub_key}
      [] t.type = "MailPreparation" -> {t.pub_key}
      [] t.type = "MailAcceptance" -> {t.sender}
      [] t.type = "Cancellation" ->
            IF ReversesTransfer(t, w, txs)
            THEN {txs[t.tx_hash].from, txs[t.tx_hash].to} ELSE {}
      [] OTHER -> {}

\* C17: after a successful Transfer, Issue, MailPreparation, MailAcceptance
\* or Cancellation, the history_hash of every wallet it debited or credited
\* is the hash of that transaction itself (for a Cancellation its own hash,
\* not the hash of the transaction it reverses).
C17_AuditChainTagging ==
    result = Ok
    => \A k \in Touched(tx, pre, PreTransactions) : wallets[k].history_hash = Hash(tx)

\* -------------------------------------------------------------------- C18
\* C18: no transaction of any type lowers the freezed_balance of a wallet,
\* so no amount ever returns from the frozen balance to the balance.
C18_EscrowNeverReturned ==
    \A k \in DOMAIN pre :
        /\ k \in DOMAIN wallets
        /\ wallets[k].freezed_balance >= pre[k].freezed_balance

\* A MailAcceptance that rejects a positive amount has succeeded on a wallet
\* that holds at least that amount frozen, and the amount is still frozen.
C18_Witness ==
    /\ tx.type = "MailAcceptance"
    /\ result = Ok
    /\ ~tx.accept
    /\ tx.amount > 0
    /\ pre[tx.sender].freezed_balance >= tx.amount
    /\ wallets[tx.sender].freezed_balance = pre[tx.sender].freezed_balance

\* -------------------------------------------------------------------- C19
\* C19: once a Cancellation of a recorded Transfer has succeeded, a further
\* executed Cancellation that names the same hash moves no balance.
C19_SingleReversal ==
    [][ ( /\ result = Ok
          /\ ReversesTransfer(tx, pre, PreTransactions)
          /\ tx'.type = "Cancellation"
          /\ tx'.tx_hash = tx.tx_hash
          /\ result'.kind # "Rejected" )
        => \A k \in DOMAIN wallets : wallets'[k].balance = wallets[k].balance ]_vars

====
